---- MODULE Spec2Model ----
(***************************************************************************)
(* Model of src/python/strategy/kalman_filter.py: one PairsTradingStrategy *)
(* object with its PairsKalmanFilter, driven by an arbitrary caller.       *)
(*                                                                         *)
(* Numbers.  Floats are modelled on integer grids that keep every          *)
(* comparison of the code exact:                                           *)
(*   z-scores and thresholds   in half units     (2.0 -> 4, 0.5 -> 1)      *)
(*   confidence                in twentieths     (0.7 -> 14, 1.0 -> 20)    *)
(*   trace of the covariance   in units of 0.01  (0.1 -> 10)               *)
(*   hedge-ratio variance      in units of 0.001 (0.01 -> 10)              *)
(*   half-life                 in days, Inf for float('inf'),              *)
(*                             NoneValue for Python's None                 *)
(*   fitted slope beta         in units of ln(2)/2070 per day, so that     *)
(*                             -ln(2)/beta is 2070/(-beta) days            *)
(* The batch filter of pykalman and the OLS fit of statsmodels are not     *)
(* recomputed: a historical data set is described by its two lengths,      *)
(* whether its values are numeric, and the figures the libraries derive    *)
(* from it (last z-score, trace of the last covariance, variance of the    *)
(* last 20 hedge ratios, number of spreads that are not NaN, slope fitted  *)
(* to the spread series, whether the fit raises).                          *)
(***************************************************************************)
EXTENDS Integers, Sequences, FiniteSets, TLC

VARIABLES
    entry_threshold,     \* PairsTradingStrategy.entry_threshold
    exit_threshold,      \* PairsTradingStrategy.exit_threshold
    kf,                  \* the PairsKalmanFilter owned by the strategy
    current_position,    \* -1 short spread, 0 flat, 1 long spread
    current_half_life,   \* NoneValue until the first successful initialize
    update_count,        \* _update_count; 0 while the attribute is absent
    last,                \* the last call made and what it returned
    last_trade,          \* "enter" / "exit": kind of the last signal other than NO_SIGNAL
    engine,              \* PairsTradingDataEngine: its pass over the configured pairs
    pc,                  \* where a thread stands inside PairsKalmanFilter.update
    publisher            \* the SignalPublisher, its heartbeat thread and its socket

vars == <<entry_threshold, exit_threshold, kf, current_position,
          current_half_life, update_count, last, last_trade, engine,
          pc, publisher>>

----------------------------------------------------------------------------
(* Bounds of the exploration *)

MaxZ == 5            \* z-scores range over -MaxZ..MaxZ half units (-2.5..2.5)
MaxUpdates == 20     \* successful strategy updates explored per run
ExtraPoints == 1     \* SpecFilter: data sets of up to MinPoints + ExtraPoints rows
NumPairs == 3        \* SpecEngine: enabled pairs in pairs_config
MaxTicks == 2        \* SpecEngine: iterations of the main loop explored
MaxCadence == 41     \* SpecCadence: successful strategy updates explored per run
MaxConnects == 2     \* SpecPublisher: calls of connect(), one heartbeat thread each
MaxFallback == 3     \* SpecFallback: successful strategy updates explored per run
MaxSignalTicks == 3  \* SpecSignals: ticks with a successful strategy update per run
MaxDisconnects == 6  \* SpecStreamer: calls of _on_disconnect per run
MaxStops == 2        \* SpecShutdown: calls of stop() from outside the engine's thread
MaxFrames == 3       \* SpecPublisher: frames handed to the socket per run

(* Program constants *)

MinPoints == 50          \* kalman_filter.py:70
MinSpreads == 50         \* kalman_filter.py:304
MinAligned == 30         \* kalman_filter.py:313
MinConfidence == 14      \* kalman_filter.py:398   (0.7 in twentieths)
HalfLifeEvery == 20      \* kalman_filter.py:358
max_half_life_days == 45 \* kalman_filter.py:268
StateVarThreshold == 10  \* kalman_filter.py:248   (0.1 in units of 0.01)
Window == 20             \* hedge_ratios.tail(20), kalman_filter.py:244
ConfidenceFallback == 10 \* return 0.5, kalman_filter.py:258
max_connection_attempts == 5   \* market_data_stream.py:55
StabilityThreshold == 10 \* kalman_filter.py:249   (0.01 in units of 0.001)
Inf == 1000000           \* float('inf'), kalman_filter.py:305
NoneValue == -1          \* Python None, kalman_filter.py:286
Ln2 == 2070              \* np.log(2) in slope units, kalman_filter.py:328
DefaultPrior == 1        \* initial_state_covariance = 1.0, kalman_filter.py:30

Max2(a, b) == IF a >= b THEN a ELSE b
Min2(a, b) == IF a <= b THEN a ELSE b

FLAT == 0
LONG_SPREAD == 1
SHORT_SPREAD == -1

Signals == {"NO_SIGNAL", "ENTER_LONG_SPREAD", "ENTER_SHORT_SPREAD", "EXIT_POSITION"}

(* (entry_threshold, exit_threshold) pairs a configuration file can hold:  *)
(* the defaults 2.0/0.5, a zero exit band, and an exit band wider than the *)
(* entry band (the constructor validates nothing).                         *)
Configs == { <<4, 1>>, <<2, 0>>, <<2, 4>> }

ZValues == (-MaxZ)..MaxZ
Lengths == { MinPoints - 1, MinPoints }
Prices == { 50, 100 }

(* Slopes whose half-life is 45 days, 46 days and infinite. *)
Slope45 == -(Ln2 \div max_half_life_days)
Slope46 == -(Ln2 \div (max_half_life_days + 1))
SlopeFlat == 0

(* What the filter and the regression derive from a data set, on both      *)
(* sides of each gate: confidence 14/20 and 13/20, half-life 45, 46, inf.  *)
Qualities ==
    { [ sv |-> 3,  hv |-> 3,  beta |-> Slope45 ],
      [ sv |-> 4,  hv |-> 3,  beta |-> Slope45 ],
      [ sv |-> 3,  hv |-> 3,  beta |-> Slope46 ],
      [ sv |-> 11, hv |-> 11, beta |-> SlopeFlat ] }

Usable(d) == d.lenA = d.lenB /\ d.lenA >= MinPoints /\ d.numeric

(* Historical data handed to initialize; the content of a data set that    *)
(* is rejected is never read, so one content stands for all of them.  All  *)
(* prices are finite and positive: every spread is a number (n_valid is    *)
(* the length) and the fit returns.                                        *)
DataSets ==
    { d \in [ lenA : Lengths, lenB : Lengths, numeric : BOOLEAN,
              z : ZValues, sv : {3, 4, 11}, hv : {3, 11},
              n_valid : Lengths, beta : { Slope45, Slope46, SlopeFlat },
              fit_raises : {FALSE} ] :
        /\ [ sv |-> d.sv, hv |-> d.hv, beta |-> d.beta ] \in Qualities
        /\ d.n_valid = d.lenA
        /\ ~Usable(d) => (d.z = 0 /\ d.sv = 3 /\ d.beta = Slope45) }

(* SpecFilter: data sets of several lengths, with a z-score that enters a *)
(* position or not and figures that pass both gates or neither.            *)
FilterLengths == (MinPoints - 1)..(MinPoints + ExtraPoints)

FilterDataSets ==
    { d \in [ lenA : FilterLengths, lenB : FilterLengths, numeric : BOOLEAN,
              z : {-MaxZ, 0}, sv : {3, 11}, hv : {3, 11},
              n_valid : FilterLengths, beta : { Slope45, SlopeFlat },
              fit_raises : {FALSE} ] :
        /\ [ sv |-> d.sv, hv |-> d.hv, beta |-> d.beta ] \in Qualities
        /\ d.n_valid = d.lenA
        /\ ~Usable(d) => (d.z = 0 /\ d.sv = 3 /\ d.beta = Slope45) }

(* SpecNumeric: the numbers behind the scores.  The engine builds the      *)
(* filter from the configuration file (main_data_engine.py:146-152), which *)
(* nothing validates: initial_state_covariance is 1.0 or negative.         *)
Priors == { DefaultPrior, -DefaultPrior }

(* Rows before the first price of A that is zero, negative or NaN: np.log  *)
(* gives -inf or NaN without raising, the batch filter carries it into     *)
(* every later state mean, and the spreads from that row on are NaN.       *)
ValidCounts == { MinAligned - 1, MinAligned, MinAligned + 1, MinSpreads - 1 }

Slopes == { -Ln2, Slope45, Slope46, SlopeFlat, -Slope45 }

(* A covariance filtered from a negative prior keeps a negative eigenvalue *)
(* (trace -0.99); hedge ratios that are NaN have variance NaN, which       *)
(* max(0, 1 - nan) scores 0 like a variance above the threshold (hv 11).   *)
NumericDataSets ==
    { d \in [ lenA : Lengths, lenB : Lengths, numeric : {TRUE},
              z : {0}, sv : {3, 11, -99}, hv : {3, 11},
              n_valid : ValidCounts \cup Lengths, beta : Slopes,
              fit_raises : BOOLEAN ] :
        /\ d.lenA = d.lenB
        /\ <<d.sv, d.hv>> \in { <<3, 3>>, <<11, 11>>, <<-99, 3>>, <<-99, 11>> }
        /\ d.n_valid <= d.lenA
        /\ d.n_valid < d.lenA => d.hv = 11
        /\ d.n_valid < MinSpreads => (d.beta = Slope45 /\ ~d.fit_raises)
        /\ d.fit_raises => d.beta = SlopeFlat
        /\ ~Usable(d) => (d.sv = 11 /\ d.n_valid = d.lenA) }

----------------------------------------------------------------------------
(* PairsTradingDataEngine (src/python/main_data_engine.py): the enabled     *)
(* pairs of pairs_config, visited in configuration order.                  *)

Pairs == 1..NumPairs

(* What the body of the loop of _load_historical_data does for one pair:   *)
(*   "raised"       reqHistoricalData or the conversion of the bars raises *)
(*   "no_data"      not bars_a or not bars_b: continue        (206-208)    *)
(*   "insufficient" fewer than 50 common dates: continue      (218-220)    *)
(*   "initialized"  strategy.initialize returned True         (233-234)    *)
(*   "init_failed"  strategy.initialize returned False        (235-236)    *)
HistOutcomes == {"raised", "no_data", "insufficient", "initialized", "init_failed"}

(* MarketDataStreamer (src/python/data_engine/market_data_stream.py)       *)
(* after __init__.                                                         *)
Symbols == { "A", "B" }
AllSymbols == << "A", "B" >>       \* the list the engine subscribes to

StreamerCreated ==
    [ is_connected |-> FALSE,
      link |-> FALSE,                      \* ib.isConnected()
      connection_attempts |-> 0,
      subscribed_symbols |-> << >>,
      sleeping |-> 0,                      \* reconnect threads in their sleep
      resubscribing |-> << >>,             \* reconnect threads past connect():
                                           \* position and local copy of the list
      requests |-> [s \in Symbols |-> 0],  \* reqMktData calls on this connection
      wanted |-> { },                      \* symbols the engine subscribed to
      started |-> 0,                       \* reconnections started since the
                                           \* last successful connect
      events |-> 0 ]                       \* calls of _on_disconnect

EngineCreated ==
    [ phase |-> "created",
      idx |-> 1,                                \* pair the loading loop is at
      hist |-> [p \in Pairs |-> "pending"],     \* outcome of the loading per pair
      has_data |-> [p \in Pairs |-> FALSE],     \* price_data[pair] is not empty
      updated |-> [p \in Pairs |-> FALSE],      \* strategy.update ran in the last tick
      realtime |-> [p \in Pairs |-> FALSE],     \* the last row of price_data[pair]
                                                \* was recorded by _process_market_data
      fed |-> [p \in Pairs |-> "none"],         \* row given to strategy.update in the
                                                \* last tick
      attempted |-> FALSE,       \* the last tick called _send_trade_signal
      sent |-> FALSE,            \* send_trade_signal returned True in the last tick
      signal_history |-> << >>,  \* the signals appended on line 437
      streamer |-> StreamerCreated,
      is_running |-> FALSE,
      shutdown_event |-> FALSE,          \* shutdown_event.is_set()
      publisher_global |-> FALSE,        \* signaler._signal_publisher is not None
      stops |-> 0,                       \* calls of stop()
      ticks |-> 0 ]

(* _generate_signals, lines 373-381: the row that price_data[pair].tail(1) *)
(* yields in a tick, given whether _process_market_data recorded a row for *)
(* the pair in this tick, whether the last row before the tick was a       *)
(* recorded one, and whether the frame held rows at all.                   *)
LatestRow(recorded_now, recorded_before, has_rows) ==
    IF recorded_now THEN "fresh"
    ELSE IF ~has_rows THEN "none"
    ELSE IF recorded_before THEN "stale"
    ELSE "historical"

----------------------------------------------------------------------------
(* SignalPublisher (src/python/comms/signaler.py) after __init__ *)

PublisherCreated ==
    [ is_connected |-> FALSE,
      socket |-> "none",          \* None, "open", or "closed" while still referenced
      stop_heartbeat |-> FALSE,
      threads |-> << >>,          \* position of every heartbeat thread started
      main |-> "idle",            \* position of the calling thread in send_* / disconnect
      method |-> "none",          \* the send_* method the calling thread is in
      wire |-> << >> ]            \* the frames handed to the open socket, in order

----------------------------------------------------------------------------
(* message_protocol: the message classes, to_json and parse_message.       *)
(* A message object is its class and its fields; a JSON text is invalid,   *)
(* an array, or an object with members.  Field values are strings; None    *)
(* and an empty dict are written null and {} in the text.                  *)

MessageTypeValues == { "TRADE_SIGNAL", "POSITION_UPDATE", "PERFORMANCE_UPDATE",
                       "SYSTEM_STATUS", "ERROR_MESSAGE", "HEARTBEAT" }

MessageClasses == { "TradeSignal", "PositionUpdate", "PerformanceUpdate",
                    "SystemStatus", "ErrorMessage", "Heartbeat" }

(* the default of the message_type field of each class *)
TypeOfClass(cls) ==
    CASE cls = "TradeSignal" -> "TRADE_SIGNAL"
      [] cls = "PositionUpdate" -> "POSITION_UPDATE"
      [] cls = "PerformanceUpdate" -> "PERFORMANCE_UPDATE"
      [] cls = "SystemStatus" -> "SYSTEM_STATUS"
      [] cls = "ErrorMessage" -> "ERROR_MESSAGE"
      [] cls = "Heartbeat" -> "HEARTBEAT"

(* the fields without a default *)
RequiredFields(cls) ==
    CASE cls = "TradeSignal" ->
           { "pair_name", "symbol_a", "symbol_b", "signal_type", "z_score",
             "hedge_ratio", "confidence", "position_size", "shares_a",
             "shares_b", "volatility", "correlation" }
      [] cls = "PositionUpdate" ->
           { "pair_name", "symbol_a", "symbol_b", "current_position",
             "shares_a", "shares_b", "market_value", "unrealized_pnl",
             "price_a", "price_b" }
      [] cls = "PerformanceUpdate" ->
           { "total_pnl", "daily_pnl", "total_return", "sharpe_ratio",
             "max_drawdown", "total_positions", "active_pairs", "cash_balance" }
      [] cls = "SystemStatus" ->
           { "status", "component", "uptime_seconds", "memory_usage_mb",
             "cpu_usage_percent", "message" }
      [] cls = "ErrorMessage" ->
           { "error_type", "error_code", "error_message", "severity", "component" }
      [] cls = "Heartbeat" -> { "component" }

(* the fields whose default is None *)
NoneFields(cls) ==
    CASE cls = "TradeSignal" -> { "metadata" }
      [] cls = "SystemStatus" -> { "metadata" }
      [] cls = "ErrorMessage" -> { "pair_name", "metadata" }
      [] OTHER -> { }

StampFields == { "message_id", "timestamp" }

AllFields(cls) ==
    RequiredFields(cls) \cup NoneFields(cls) \cup StampFields \cup { "message_type" }

(* json.dumps and json.loads on one field value *)
Encode(v) == IF v = "None" THEN "null" ELSE IF v = "dict()" THEN "{}" ELSE v

Decode(j) == IF j = "null" THEN "None" ELSE IF j = "{}" THEN "dict()" ELSE j

(* to_json: json.dumps(asdict(self)) *)
ToJson(m) ==
    [ json |-> "object",
      members |-> [ k \in DOMAIN m.fields |-> Encode(m.fields[k]) ] ]

(* The constructor call of from_json with __post_init__: a missing field or *)
(* an unknown key is a TypeError; an empty message_id or timestamp is      *)
(* generated.                                                              *)
Construct(cls, data) ==
    IF RequiredFields(cls) \subseteq DOMAIN data /\ DOMAIN data \subseteq AllFields(cls)
    THEN [ raised |-> "none",
           value |->
             [ cls |-> cls,
               fields |->
                 [ k \in AllFields(cls) |->
                     IF k \in DOMAIN data
                     THEN IF k \in StampFields /\ data[k] = "" THEN "generated"
                          ELSE data[k]
                     ELSE IF k \in StampFields THEN "generated"
                     ELSE IF k = "message_type" THEN TypeOfClass(cls)
                     ELSE "None" ] ] ]
    ELSE [ raised |-> "TypeError", value |-> [ cls |-> "none" ] ]

(* from_json of the five classes that have one *)
FromJson(cls, text) ==
    Construct(cls, [ k \in DOMAIN text.members |-> Decode(text.members[k]) ])

(* parse_message: every exception leaves as ValueError *)
ParseMessage(text) ==
    LET failed == [ raised |-> "ValueError", value |-> [ cls |-> "none" ] ]
        message_type ==
            IF "message_type" \in DOMAIN text.members
            THEN Decode(text.members["message_type"]) ELSE "None"
        made ==
            CASE message_type = "TRADE_SIGNAL" -> FromJson("TradeSignal", text)
              [] message_type = "POSITION_UPDATE" -> FromJson("PositionUpdate", text)
              [] message_type = "PERFORMANCE_UPDATE" -> FromJson("PerformanceUpdate", text)
              [] message_type = "SYSTEM_STATUS" -> FromJson("SystemStatus", text)
              [] message_type = "ERROR_MESSAGE" -> FromJson("ErrorMessage", text)
              [] OTHER -> failed
    IN  IF text.json # "object" THEN failed
        ELSE IF made.raised # "none" THEN failed
        ELSE made

(* The message objects parsed: every class, two contents, two ids, the     *)
(* optional fields None or set.                                            *)
Contents == { "a", "b" }
Ids == { "id1", "id2" }

Messages ==
    { [ cls |-> cls,
        fields |-> [ k \in AllFields(cls) |->
                       IF k \in RequiredFields(cls) THEN v
                       ELSE IF k = "message_id" THEN id
                       ELSE IF k = "timestamp" THEN "t1"
                       ELSE IF k = "message_type" THEN TypeOfClass(cls)
                       ELSE opt ] ] :
        <<cls, v, id, opt>> \in
            { q \in MessageClasses \X Contents \X Ids \X { "None", "dict()" } :
                NoneFields(q[1]) = { } => q[4] = "None" } }

(* The texts parsed: what to_json writes, the same with another            *)
(* message_type or none, text that is not JSON, JSON that is no object.    *)
Texts ==
    { ToJson(m) : m \in Messages }
    \cup { [ ToJson(m) EXCEPT !.members["message_type"] = t ] :
             m \in Messages, t \in MessageTypeValues \cup { "UNKNOWN", "null" } }
    \cup { [ json |-> "object",
             members |-> [ k \in DOMAIN m.fields \ { "message_type" } |->
                             Encode(m.fields[k]) ] ] : m \in Messages }
    \cup { [ json |-> "invalid" ], [ json |-> "array" ] }

SendMethods == { "send_trade_signal", "send_quick_signal", "send_position_update",
                 "send_performance_update", "send_system_status",
                 "send_error_message" }

(* The topic each send_* method passes to _send_message. *)
TopicOf(method) ==
    CASE method = "send_trade_signal" -> "TRADE_SIGNAL"
      [] method = "send_quick_signal" -> "TRADE_SIGNAL"
      [] method = "send_position_update" -> "POSITION_UPDATE"
      [] method = "send_performance_update" -> "PERFORMANCE_UPDATE"
      [] method = "send_system_status" -> "SYSTEM_STATUS"
      [] method = "send_error_message" -> "ERROR_MESSAGE"

(* the tests on the way to the socket looking at the socket only *)
SendAllowedSocketOnly(p) == p.socket # "none"

(* The tests on the way to the socket: is_connected at the top of every    *)
(* send_* method (line 113), is_connected and the socket in _send_message  *)
(* (line 97).  A closed socket object is still a true value.               *)
SendAllowed(p) == p.is_connected /\ (p.is_connected /\ p.socket # "none")

Frame(part, topic, by) == [ part |-> part, topic |-> topic, by |-> by ]

(* send_string / send_json on self.socket: a closed socket raises ZMQError *)
(* and None raises AttributeError, both caught on line 107.                *)
SocketSend(p, frame) ==
    IF p.socket = "open"
    THEN [ ok |-> TRUE, wire |-> Append(p.wire, frame) ]
    ELSE [ ok |-> FALSE, wire |-> p.wire ]

----------------------------------------------------------------------------
(* PairsKalmanFilter *)

(* __init__ and reset(): every series is None. *)
KFCleared ==
    [ is_initialized |-> FALSE,
      has_state |-> FALSE,   \* state_means .. hedge_ratios are not None
      initial_state_covariance |-> DefaultPrior,   \* constructor argument
      n_states |-> 0,        \* len(state_means)
      n_covs |-> 0,          \* len(state_covariances)
      n_series |-> 0,        \* len(hedge_ratios) = len(z_scores) = len(spreads)
      n_online |-> 0,        \* entries of hedge_ratios appended by update()
      z |-> 0,               \* z_scores.iloc[-1]
      sv |-> 0,              \* trace(state_covariances[-1])
      hv |-> 0,              \* hedge_ratios.tail(20).var()
      n_valid |-> 0,         \* len(spreads.dropna())
      beta |-> SlopeFlat,    \* slope the regression fits to `spreads`
      fit_raises |-> FALSE ] \* the regression on `spreads` raises

(* initialize() with the minimum-length test off by one *)
KFInitializeShort(k, d) ==
    IF d.lenA # d.lenB
    THEN [ ok |-> FALSE, kf |-> [k EXCEPT !.is_initialized = FALSE] ]
    ELSE IF d.lenA < MinPoints - 1
    THEN [ ok |-> FALSE, kf |-> [k EXCEPT !.is_initialized = FALSE] ]
    ELSE IF ~d.numeric
    THEN [ ok |-> FALSE, kf |-> [k EXCEPT !.is_initialized = FALSE] ]
    ELSE [ ok |-> TRUE,
           kf |-> [ is_initialized |-> TRUE, has_state |-> TRUE,
                    initial_state_covariance |-> k.initial_state_covariance,
                    n_states |-> d.lenA, n_covs |-> d.lenA, n_series |-> d.lenA,
                    n_online |-> 0,
                    z |-> d.z, sv |-> d.sv, hv |-> d.hv,
                    n_valid |-> d.n_valid, beta |-> d.beta,
                    fit_raises |-> d.fit_raises ] ]

(* initialize() whose derived series lose the first row *)
KFInitializeDropsFirst(k, d) ==
    IF d.lenA # d.lenB \/ d.lenA < MinPoints \/ ~d.numeric
    THEN [ ok |-> FALSE, kf |-> [k EXCEPT !.is_initialized = FALSE] ]
    ELSE [ ok |-> TRUE,
           kf |-> [ is_initialized |-> TRUE, has_state |-> TRUE,
                    initial_state_covariance |-> k.initial_state_covariance,
                    n_states |-> d.lenA, n_covs |-> d.lenA,
                    n_series |-> d.lenA - 1, n_online |-> 0,
                    z |-> d.z, sv |-> d.sv, hv |-> d.hv,
                    n_valid |-> d.n_valid - 1, beta |-> d.beta,
                    fit_raises |-> d.fit_raises ] ]

(* initialize(): the except branch clears is_initialized and nothing else. *)
KFInitialize(k, d) ==
    IF d.lenA # d.lenB
    THEN [ ok |-> FALSE, kf |-> [k EXCEPT !.is_initialized = FALSE] ]
    ELSE IF d.lenA < MinPoints
    THEN [ ok |-> FALSE, kf |-> [k EXCEPT !.is_initialized = FALSE] ]
    ELSE IF ~d.numeric       \* np.log raises on non-numeric values (line 74)
    THEN [ ok |-> FALSE, kf |-> [k EXCEPT !.is_initialized = FALSE] ]
    ELSE [ ok |-> TRUE,
           kf |-> [ is_initialized |-> TRUE, has_state |-> TRUE,
                    initial_state_covariance |-> k.initial_state_covariance,
                    n_states |-> d.lenA, n_covs |-> d.lenA, n_series |-> d.lenA,
                    n_online |-> 0,
                    z |-> d.z, sv |-> d.sv, hv |-> d.hv,
                    n_valid |-> d.n_valid, beta |-> d.beta,
                    fit_raises |-> d.fit_raises ] ]

(* update().  Not initialized: RuntimeError, raised before the try block.  *)
(* Initialized: state_means[-1, :] is 1-D, so                              *)
(* (observation_matrix @ predicted_state_mean) has shape (1,) and its      *)
(* index [0, 0] on line 168 raises IndexError for every pair of prices;    *)
(* the handler on lines 190-193 returns the last entries of the series     *)
(* built by initialize, and lines 172-173 are never reached.               *)
KFUpdateUnguarded(k, price_a, price_b) ==
    [ raised |-> "none", caught |-> "IndexError", kf |-> k, z |-> k.z,
      source |-> "stored" ]

(* update() failing only on line 177, after lines 172-173 stored the new    *)
(* state mean and covariance                                               *)
KFUpdateLateFailure(k, price_a, price_b) ==
    IF ~k.is_initialized
    THEN [ raised |-> "RuntimeError", caught |-> "none", kf |-> k, z |-> 0,
           source |-> "none" ]
    ELSE [ raised |-> "none", caught |-> "IndexError",
           kf |-> [k EXCEPT !.n_states = @ + 1, !.n_covs = @ + 1], z |-> k.z,
           source |-> "stored" ]

(* The spread and z-score returned come from one of three places: the     *)
(* innovation of this observation ("innovation"), lines 176-181 applied to *)
(* the updated mean and covariance ("posterior"), or line 193, the last    *)
(* entries of the series that initialize stored ("stored").                *)
KFUpdate(k, price_a, price_b) ==
    IF ~k.is_initialized
    THEN [ raised |-> "RuntimeError", caught |-> "none", kf |-> k, z |-> 0,
           source |-> "none" ]
    ELSE [ raised |-> "none", caught |-> "IndexError", kf |-> k, z |-> k.z,
           source |-> "stored" ]

(* The try block of update() failing after line 172 stored the new mean    *)
(* and before line 173 stored the new covariance                           *)
KFUpdateTryStoresMean(k) ==
    [ kf |-> [k EXCEPT !.n_states = @ + 1], pc |-> "except" ]

(* The try block of update() taken by itself, lines 146-168: it reads the  *)
(* last mean and covariance and raises on line 168 with nothing stored.    *)
KFUpdateTry(k) == [ kf |-> k, pc |-> "except" ]

(* get_confidence() returning the mean of the two scores as computed *)
GetConfidenceUnclamped(k) ==
    IF ~k.is_initialized
    THEN 0
    ELSE LET state_confidence == Max2(0, StateVarThreshold - k.sv)
             stability_confidence == Max2(0, StabilityThreshold - k.hv)
         IN  state_confidence + stability_confidence

(* get_confidence() *)
GetConfidence(k) ==
    IF ~k.is_initialized
    THEN 0
    ELSE LET state_confidence == Max2(0, StateVarThreshold - k.sv)
             stability_confidence == Max2(0, StabilityThreshold - k.hv)
             confidence == state_confidence + stability_confidence
         IN  Min2(20, Max2(0, confidence))

(* get_confidence() whose handler returns 0.75 *)
GetConfidenceHighFallback(k, raises) ==
    IF ~k.is_initialized THEN 0
    ELSE IF raises THEN MinConfidence + 1
    ELSE GetConfidence(k)

(* get_confidence() with its handler, lines 256-258: when a statement of   *)
(* the try block raises, the value returned is 0.5.                        *)
GetConfidenceGuarded(k, raises) ==
    IF ~k.is_initialized THEN 0
    ELSE IF raises THEN ConfidenceFallback
    ELSE GetConfidence(k)

(* reset() that clears the flag and keeps the series *)
KFResetKeepsSeries(k) == [k EXCEPT !.is_initialized = FALSE]

(* reset() that clears the series and keeps the flag *)
KFResetKeepsFlag(k) ==
    [KFCleared EXCEPT !.is_initialized = k.is_initialized,
                      !.initial_state_covariance = k.initial_state_covariance]

(* reset(): the flag and the five series; the constructor arguments stay *)
KFResetState(k) ==
    [KFCleared EXCEPT !.initial_state_covariance = k.initial_state_covariance]

----------------------------------------------------------------------------
(* PairsTradingStrategy *)

(* shift(1).dropna() and diff().dropna() both lose the first of the n      *)
(* spreads; the intersection of their indexes has n - 1 entries.           *)
AlignedPairs(n) == IF n > 0 THEN n - 1 ELSE 0

(* the body of _calculate_half_life() with the sign test inverted *)
HalfLifeOfSpreadsInverted(n, beta, fit_raises) ==
    IF n < MinSpreads THEN Inf
    ELSE IF AlignedPairs(n) < MinAligned THEN Inf
    ELSE IF fit_raises THEN Inf
    ELSE IF beta <= 0 THEN Inf
    ELSE -(Ln2 \div beta)

(* the body of _calculate_half_life() on n spreads that are not NaN, to    *)
(* which the regression fits the slope beta, or raises.                    *)
HalfLifeOfSpreads(n, beta, fit_raises) ==
    IF n < MinSpreads THEN Inf                        \* lines 304-305
    ELSE IF AlignedPairs(n) < MinAligned THEN Inf     \* lines 313-314
    ELSE IF fit_raises THEN Inf                       \* lines 332-334
    ELSE IF beta >= 0 THEN Inf                        \* lines 325-326
    ELSE Ln2 \div (-beta)                             \* line 328

(* _calculate_half_life(): the regression over kalman_filter.spreads; a    *)
(* missing series raises inside the try block and yields inf.              *)
CalculateHalfLife(k) ==
    IF k.has_state THEN HalfLifeOfSpreads(k.n_valid, k.beta, k.fit_raises) ELSE Inf

(* the cadence test of update() with half the period *)
HalfLifeDueEveryTen(count) == count % (HalfLifeEvery \div 2) = 0

(* the cadence test of update(), line 358 *)
HalfLifeDue(count) == count % HalfLifeEvery = 0

HalfLifeGateInverted(half_life) ==
    half_life # NoneValue /\ half_life < max_half_life_days

HalfLifeGate(half_life) ==
    half_life # NoneValue /\ half_life > max_half_life_days

ConfidenceGateLow(confidence) == confidence < MinConfidence - 1

ConfidenceGate(confidence) == confidence < MinConfidence

EntryLong(z_score, entry) == z_score <= -entry

EntryShortStrict(z_score, entry) == z_score > entry

EntryShort(z_score, entry) == z_score >= entry

ExitLongStrict(z_score, exit) == z_score > -exit

ExitLong(z_score, exit) == z_score >= -exit

ExitShortMirrored(z_score, exit) == z_score >= exit

ExitShort(z_score, exit) == z_score <= exit

(* the entry rules tried in every position *)
PositionSignalReentry(position, z_score, entry, exit) ==
    IF EntryLong(z_score, entry) THEN "ENTER_LONG_SPREAD"
    ELSE IF EntryShort(z_score, entry) THEN "ENTER_SHORT_SPREAD"
    ELSE IF position = LONG_SPREAD /\ ExitLong(z_score, exit) THEN "EXIT_POSITION"
    ELSE IF position = SHORT_SPREAD /\ ExitShort(z_score, exit) THEN "EXIT_POSITION"
    ELSE "NO_SIGNAL"

PositionSignal(position, z_score, entry, exit) ==
    IF position = FLAT
    THEN IF EntryLong(z_score, entry) THEN "ENTER_LONG_SPREAD"
         ELSE IF EntryShort(z_score, entry) THEN "ENTER_SHORT_SPREAD"
         ELSE "NO_SIGNAL"
    ELSE IF position = LONG_SPREAD
    THEN IF ExitLong(z_score, exit) THEN "EXIT_POSITION" ELSE "NO_SIGNAL"
    ELSE IF position = SHORT_SPREAD
    THEN IF ExitShort(z_score, exit) THEN "EXIT_POSITION" ELSE "NO_SIGNAL"
    ELSE "NO_SIGNAL"

(* _generate_signal() *)
GenerateSignal(position, half_life, z_score, confidence, entry, exit) ==
    IF HalfLifeGate(half_life) THEN "NO_SIGNAL"
    ELSE IF ConfidenceGate(confidence) THEN "NO_SIGNAL"
    ELSE PositionSignal(position, z_score, entry, exit)

(* _update_position_tracking() without the EXIT_POSITION branch *)
UpdatePositionTrackingNoExit(position, signal) ==
    IF signal = "ENTER_LONG_SPREAD" THEN LONG_SPREAD
    ELSE IF signal = "ENTER_SHORT_SPREAD" THEN SHORT_SPREAD
    ELSE position

(* _update_position_tracking() *)
UpdatePositionTracking(position, signal) ==
    IF signal = "ENTER_LONG_SPREAD" THEN LONG_SPREAD
    ELSE IF signal = "ENTER_SHORT_SPREAD" THEN SHORT_SPREAD
    ELSE IF signal = "EXIT_POSITION" THEN FLAT
    ELSE position

----------------------------------------------------------------------------
(* The record of the last call: its inputs, the state it found, its result *)

NoCall ==
    [ op |-> "none", raised |-> "none", ok |-> TRUE, signal |-> "NO_SIGNAL",
      pos_before |-> FLAT, ret_position |-> FLAT, z |-> 0, confidence |-> 0,
      half_life |-> NoneValue, trade_before |-> "none",
      had_state |-> FALSE, lenA |-> 0, lenB |-> 0,
      after_entry |-> FALSE, entry_z |-> 0,
      caught |-> "none",        \* exception handled inside PairsKalmanFilter.update
      recomputed |-> FALSE,     \* the call ran _calculate_half_life
      fallback |-> FALSE,       \* get_confidence returned from its handler
      source |-> "none",        \* where the returned spread and z-score come from
      text |-> [ json |-> "none" ],   \* the argument of parse_message
      parsed |-> [ cls |-> "none" ],  \* the object parse_message returned
      reports_error |-> FALSE ] \* no result of this module carries an error field

Call(op) ==
    [ NoCall EXCEPT !.op = op,
                    !.pos_before = current_position,
                    !.ret_position = current_position,
                    !.half_life = current_half_life,
                    !.trade_before = last_trade,
                    !.had_state = kf.has_state ]

(* The call before this one was a strategy update that entered a position *)
Entered(l) ==
    l.op = "update" /\ l.signal \in {"ENTER_LONG_SPREAD", "ENTER_SHORT_SPREAD"}

TradeKind(signal, before) ==
    IF signal \in {"ENTER_LONG_SPREAD", "ENTER_SHORT_SPREAD"} THEN "enter"
    ELSE IF signal = "EXIT_POSITION" THEN "exit"
    ELSE before

Init ==
    /\ \E c \in Configs : entry_threshold = c[1] /\ exit_threshold = c[2]
    /\ kf = KFCleared
    /\ current_position = FLAT
    /\ current_half_life = NoneValue
    /\ update_count = 0
    /\ last = NoCall
    /\ last_trade = "none"
    /\ engine = EngineCreated
    /\ pc = "idle"
    /\ publisher = PublisherCreated

(* A strategy with the default thresholds whose filter was built from the  *)
(* configuration file.                                                     *)
InitNumeric ==
    /\ entry_threshold = 4 /\ exit_threshold = 1
    /\ \E c \in Priors : kf = [KFCleared EXCEPT !.initial_state_covariance = c]
    /\ current_position = FLAT
    /\ current_half_life = NoneValue
    /\ update_count = 0
    /\ last = NoCall
    /\ last_trade = "none"
    /\ engine = EngineCreated
    /\ pc = "idle"
    /\ publisher = PublisherCreated

(* PairsTradingStrategy.initialize(price_a, price_b) *)
StrategyInitialize(d) ==
    LET r == KFInitialize(kf, d) IN
    /\ kf' = r.kf
    /\ current_half_life' = IF r.ok THEN CalculateHalfLife(r.kf) ELSE current_half_life
    /\ last' = [ Call("initialize") EXCEPT !.ok = r.ok,
                                           !.recomputed = r.ok,
                                           !.half_life = current_half_life',
                                           !.lenA = d.lenA, !.lenB = d.lenB ]
    /\ UNCHANGED <<engine, pc, publisher, entry_threshold, exit_threshold, current_position,
                   update_count, last_trade>>

(* PairsTradingStrategy.update(price_a, price_b), explored while fewer    *)
(* than `limit` updates have completed; `raises` tells whether the try     *)
(* block of get_confidence raises in this call.                            *)
StrategyUpdateCore(price_a, price_b, limit, raises) ==
    LET r == KFUpdate(kf, price_a, price_b) IN
    IF r.raised # "none"
    THEN \* except branch, lines 378-388: nothing was assigned before the raise
         /\ last' = [ Call("update") EXCEPT !.raised = r.raised, !.ok = FALSE ]
         /\ UNCHANGED <<pc, entry_threshold, exit_threshold, kf, current_position,
                        current_half_life, update_count, last_trade>>
    ELSE /\ update_count < limit
         /\ LET confidence == GetConfidenceGuarded(r.kf, raises)
                count == update_count + 1
                due == HalfLifeDue(count)
                half_life == IF due
                             THEN CalculateHalfLife(r.kf)
                             ELSE current_half_life
                signal == GenerateSignal(current_position, half_life, r.z,
                                         confidence, entry_threshold, exit_threshold)
                position == UpdatePositionTracking(current_position, signal)
            IN  /\ kf' = r.kf
                /\ update_count' = count
                /\ current_half_life' = half_life
                /\ current_position' = position
                /\ last' = [ Call("update") EXCEPT !.signal = signal,
                                                   !.ret_position = position,
                                                   !.z = r.z,
                                                   !.confidence = confidence,
                                                   !.half_life = half_life,
                                                   !.caught = r.caught,
                                                   !.source = r.source,
                                                   !.recomputed = due,
                                                   !.fallback = raises,
                                                   !.after_entry = Entered(last),
                                                   !.entry_z =
                                                       IF Entered(last) THEN last.z ELSE 0 ]
                /\ last_trade' = TradeKind(signal, last_trade)
         /\ UNCHANGED <<pc, entry_threshold, exit_threshold>>

(* The update called on its own: engine and publisher are not involved *)
StrategyUpdateStep(price_a, price_b, limit, raises) ==
    /\ StrategyUpdateCore(price_a, price_b, limit, raises)
    /\ UNCHANGED <<engine, publisher>>

(* The same when get_confidence computes its value *)
StrategyUpdateWithin(price_a, price_b, limit) ==
    StrategyUpdateStep(price_a, price_b, limit, FALSE)

StrategyUpdate(price_a, price_b) ==
    StrategyUpdateWithin(price_a, price_b, MaxUpdates)

(* PairsKalmanFilter.update called directly on the strategy's filter *)
KalmanUpdate(price_a, price_b) ==
    LET r == KFUpdate(kf, price_a, price_b) IN
    /\ kf' = r.kf
    /\ last' = [ Call("kf_update") EXCEPT !.raised = r.raised,
                                          !.ok = (r.raised = "none"),
                                          !.z = r.z,
                                          !.source = r.source,
                                          !.caught = r.caught ]
    /\ UNCHANGED <<engine, pc, publisher, entry_threshold, exit_threshold, current_position,
                   current_half_life, update_count, last_trade>>

(* PairsKalmanFilter.update in three steps, for readers on other threads  *)
(* (PairsTradingDataEngine.get_status, main_data_engine.py:523-531).       *)
(* Lines 142-143: the test of is_initialized.                              *)
UpdateEnter(price_a, price_b) ==
    /\ pc = "idle"
    /\ IF kf.is_initialized
       THEN pc' = "try" /\ UNCHANGED last
       ELSE /\ pc' = "idle"
            /\ last' = [ Call("kf_update") EXCEPT !.raised = "RuntimeError",
                                                  !.ok = FALSE ]
    /\ UNCHANGED <<engine, publisher, entry_threshold, exit_threshold, kf,
                   current_position, current_half_life, update_count, last_trade>>

(* Lines 146-168: the try block up to the exception *)
UpdateTry ==
    /\ pc = "try"
    /\ LET r == KFUpdateTry(kf) IN kf' = r.kf /\ pc' = r.pc
    /\ UNCHANGED <<engine, publisher, entry_threshold, exit_threshold,
                   current_position, current_half_life, update_count, last,
                   last_trade>>

(* Lines 190-193: the handler returns the last entries of the series; a    *)
(* reset that ran meanwhile leaves None there and the handler itself       *)
(* raises.                                                                 *)
UpdateExcept ==
    /\ pc = "except"
    /\ pc' = "idle"
    /\ last' = IF kf.has_state
               THEN [ Call("kf_update") EXCEPT !.z = kf.z, !.caught = "IndexError",
                                               !.source = "stored" ]
               ELSE [ Call("kf_update") EXCEPT !.raised = "TypeError", !.ok = FALSE ]
    /\ UNCHANGED <<engine, publisher, entry_threshold, exit_threshold, kf,
                   current_position, current_half_life, update_count, last_trade>>

(* SignalPublisher.connect(): a new socket replaces self.socket; when bind *)
(* raises, the handler clears is_connected and no thread is started.       *)
PublisherConnected(p, bind_ok) ==
    IF bind_ok
    THEN [p EXCEPT !.socket = "open", !.is_connected = TRUE,
                   !.threads = Append(@, "loop")]
    ELSE [p EXCEPT !.socket = "open", !.is_connected = FALSE]

PublisherConnect(bind_ok) ==
    /\ publisher.main = "idle"
    /\ Len(publisher.threads) < MaxConnects
    /\ publisher' = PublisherConnected(publisher, bind_ok)
    /\ last' = [ Call("connect") EXCEPT !.ok = bind_ok ]
    /\ UNCHANGED <<engine, pc, entry_threshold, exit_threshold, kf,
                   current_position, current_half_life, update_count, last_trade>>

(* disconnect(), line 61 *)
DisconnectBegin ==
    /\ publisher.main = "idle"
    /\ publisher' = [publisher EXCEPT !.stop_heartbeat = TRUE, !.main = "join"]
    /\ UNCHANGED <<engine, pc, entry_threshold, exit_threshold, kf, last,
                   current_position, current_half_life, update_count, last_trade>>

(* disconnect(), lines 63-67: the join returns or times out after 2 s (a   *)
(* heartbeat thread sleeps 30 s), then the socket is closed               *)
DisconnectClose ==
    /\ publisher.main = "join"
    /\ publisher' = [publisher EXCEPT
                       !.socket = IF @ = "none" THEN "none" ELSE "closed",
                       !.main = "closing"]
    /\ UNCHANGED <<engine, pc, entry_threshold, exit_threshold, kf, last,
                   current_position, current_half_life, update_count, last_trade>>

(* disconnect(), line 68 *)
DisconnectUnset ==
    /\ publisher.main = "closing"
    /\ publisher' = [publisher EXCEPT !.socket = "none", !.main = "unset"]
    /\ UNCHANGED <<engine, pc, entry_threshold, exit_threshold, kf, last,
                   current_position, current_half_life, update_count, last_trade>>

(* disconnect(), line 70, and the return *)
DisconnectReturn ==
    /\ publisher.main = "unset"
    /\ publisher' = [publisher EXCEPT !.is_connected = FALSE, !.main = "idle"]
    /\ last' = Call("disconnect")
    /\ UNCHANGED <<engine, pc, entry_threshold, exit_threshold, kf,
                   current_position, current_half_life, update_count, last_trade>>

(* A send_* method up to the tests of _send_message *)
SendCall(method) ==
    /\ publisher.main = "idle"
    /\ IF SendAllowed(publisher)
       THEN /\ Len(publisher.wire) < MaxFrames
            /\ publisher' = [publisher EXCEPT !.main = "send", !.method = method]
            /\ UNCHANGED last
       ELSE /\ last' = [ Call(method) EXCEPT !.ok = FALSE ]
            /\ UNCHANGED publisher
    /\ UNCHANGED <<engine, pc, entry_threshold, exit_threshold, kf,
                   current_position, current_half_life, update_count, last_trade>>

(* _send_message, line 103: the topic frame, with SNDMORE *)
SendTopic ==
    /\ publisher.main = "send"
    /\ LET r == SocketSend(publisher,
                           Frame("topic", TopicOf(publisher.method), "main"))
       IN  IF r.ok
           THEN /\ publisher' = [publisher EXCEPT !.wire = r.wire, !.main = "more"]
                /\ UNCHANGED last
           ELSE /\ publisher' = [publisher EXCEPT !.main = "idle", !.method = "none"]
                /\ last' = [ Call(publisher.method) EXCEPT !.ok = FALSE ]
    /\ UNCHANGED <<engine, pc, entry_threshold, exit_threshold, kf,
                   current_position, current_half_life, update_count, last_trade>>

(* _send_message, lines 104-105: the JSON frame, and the return *)
SendPayload ==
    /\ publisher.main = "more"
    /\ LET r == SocketSend(publisher,
                           Frame("json", TopicOf(publisher.method), "main"))
       IN  /\ publisher' = [publisher EXCEPT !.wire = r.wire, !.main = "idle",
                                             !.method = "none"]
           /\ last' = [ Call(publisher.method) EXCEPT !.ok = r.ok ]
    /\ UNCHANGED <<engine, pc, entry_threshold, exit_threshold, kf,
                   current_position, current_half_life, update_count, last_trade>>

(* _heartbeat_loop, lines 80-82 and 90: the loop test, the test of          *)
(* is_connected, the sleep                                                 *)
HeartbeatLoop(i) ==
    /\ publisher.threads[i] = "loop"
    /\ publisher' = [publisher EXCEPT !.threads[i] =
                        IF publisher.stop_heartbeat THEN "exited"
                        ELSE IF publisher.is_connected THEN "check"
                        ELSE "loop"]
    /\ UNCHANGED <<engine, pc, entry_threshold, exit_threshold, kf, last,
                   current_position, current_half_life, update_count, last_trade>>

(* _heartbeat_loop, lines 83-89, into _send_message, line 97 *)
HeartbeatCheck(i) ==
    /\ publisher.threads[i] = "check"
    /\ publisher' = [publisher EXCEPT !.threads[i] =
                        IF SendAllowed(publisher) THEN "send" ELSE "loop"]
    /\ UNCHANGED <<engine, pc, entry_threshold, exit_threshold, kf, last,
                   current_position, current_half_life, update_count, last_trade>>

(* the heartbeat thread in _send_message, line 103 *)
HeartbeatTopic(i) ==
    /\ publisher.threads[i] = "send"
    /\ Len(publisher.wire) < MaxFrames
    /\ LET r == SocketSend(publisher, Frame("topic", "HEARTBEAT", "heartbeat"))
       IN  publisher' = [publisher EXCEPT
                           !.wire = r.wire,
                           !.threads[i] = IF r.ok THEN "more" ELSE "loop"]
    /\ UNCHANGED <<engine, pc, entry_threshold, exit_threshold, kf, last,
                   current_position, current_half_life, update_count, last_trade>>

(* the heartbeat thread in _send_message, line 104 *)
HeartbeatPayload(i) ==
    /\ publisher.threads[i] = "more"
    /\ Len(publisher.wire) < MaxFrames
    /\ LET r == SocketSend(publisher, Frame("json", "HEARTBEAT", "heartbeat"))
       IN  publisher' = [publisher EXCEPT !.wire = r.wire, !.threads[i] = "loop"]
    /\ UNCHANGED <<engine, pc, entry_threshold, exit_threshold, kf, last,
                   current_position, current_half_life, update_count, last_trade>>

(* parse_message(text) *)
ParseMessageCall(text) ==
    /\ LET r == ParseMessage(text)
       IN  last' = [ Call("parse_message") EXCEPT !.ok = (r.raised = "none"),
                                                  !.raised = r.raised,
                                                  !.text = text,
                                                  !.parsed = r.value ]
    /\ UNCHANGED <<engine, pc, publisher, entry_threshold, exit_threshold, kf,
                   current_position, current_half_life, update_count, last_trade>>

(* _send_trade_signal appending to signal_history before the send *)
HistoryAlways(history, signal, sent) == Append(history, signal)

(* _send_trade_signal, lines 430-445: the signal is stored when            *)
(* send_trade_signal returned True.                                        *)
HistoryAfterSend(history, signal, sent) ==
    IF sent THEN Append(history, signal) ELSE history

(* _generate_signals for one pair with prices, lines 382-387, and          *)
(* _send_trade_signal: the strategy update, then for a signal of the map   *)
(* on lines 397-401 the message is built and given to send_trade_signal;   *)
(* `fails` names the socket call that raises, if one does.                 *)
GenerateSignals(price_a, price_b, fails) ==
    /\ StrategyUpdateCore(price_a, price_b, MaxSignalTicks, FALSE)
    /\ LET signal == last'.signal
           attempted == signal # "NO_SIGNAL"
                        /\ signal \in { "ENTER_LONG_SPREAD", "ENTER_SHORT_SPREAD",
                                        "EXIT_POSITION" }
           allowed == attempted /\ SendAllowed(publisher)
           topic == SocketSend(publisher, Frame("topic", "TRADE_SIGNAL", "main"))
           body == SocketSend([publisher EXCEPT !.wire = topic.wire],
                              Frame("json", "TRADE_SIGNAL", "main"))
           sent == allowed /\ fails = "none" /\ topic.ok /\ body.ok
       IN  /\ publisher' =
                IF ~allowed \/ fails = "send_string" THEN publisher
                ELSE IF fails = "send_json" THEN [publisher EXCEPT !.wire = topic.wire]
                ELSE [publisher EXCEPT !.wire = body.wire]
           /\ engine' = [engine EXCEPT
                           !.attempted = attempted,
                           !.sent = sent,
                           !.signal_history = HistoryAfterSend(@, signal, sent)]

(* _reconnect, line 310: the list to resubscribe is a copy taken before    *)
(* the clear                                                               *)
SymbolsToResubscribe(symbols) == symbols

InList(symbol, list) == \E i \in 1..Len(list) : list[i] = symbol

(* connect(): ib.connect returns at once on a connected client; on success *)
(* is_connected is set and connection_attempts is reset (lines 74-76).     *)
StreamerConnected(st, ok) ==
    IF ok \/ st.link
    THEN [st EXCEPT !.link = TRUE, !.is_connected = TRUE,
                    !.connection_attempts = 0, !.started = 0]
    ELSE st

(* subscribe_to_symbols(symbols): nothing when not connected; a symbol not *)
(* in the list is requested and appended, and a request on a client that   *)
(* is not connected raises inside _subscribe_to_symbol, which returns      *)
(* False.                                                                  *)
RECURSIVE SubscribeLoop(_, _)
SubscribeLoop(st, symbols) ==
    IF symbols = << >> THEN st
    ELSE LET symbol == Head(symbols)
             next == IF InList(symbol, st.subscribed_symbols) \/ ~st.link
                     THEN st
                     ELSE [st EXCEPT !.requests[symbol] = @ + 1,
                                     !.subscribed_symbols = Append(@, symbol)]
         IN  SubscribeLoop(next, Tail(symbols))

SubscribeToSymbols(st, symbols) ==
    IF ~st.is_connected THEN st ELSE SubscribeLoop(st, symbols)

(* _on_disconnect, lines 290-302 *)
OnDisconnect(st) ==
    LET down == [st EXCEPT !.is_connected = FALSE, !.events = @ + 1]
    IN  IF down.connection_attempts < max_connection_attempts
        THEN [down EXCEPT !.connection_attempts = @ + 1,
                          !.sleeping = @ + 1,
                          !.started = @ + 1]
        ELSE down

(* start(), lines 108-116, called by the engine before it subscribes *)
StreamerStart(ok) ==
    /\ ~engine.streamer.is_connected
    /\ engine.streamer.wanted = { }
    /\ engine' = [engine EXCEPT !.streamer = StreamerConnected(@, ok)]
    /\ UNCHANGED <<pc, publisher, entry_threshold, exit_threshold, kf,
                   current_position, current_half_life, update_count, last,
                   last_trade>>

(* the engine's subscribe_to_symbols(all_symbols), main_data_engine.py:265 *)
EngineSubscribe ==
    /\ engine.streamer.is_connected
    /\ engine.streamer.wanted = { }
    /\ engine' = [engine EXCEPT !.streamer =
                     [ SubscribeToSymbols(@, AllSymbols) EXCEPT !.wanted = Symbols ]]
    /\ UNCHANGED <<pc, publisher, entry_threshold, exit_threshold, kf,
                   current_position, current_half_life, update_count, last,
                   last_trade>>

(* The connection to TWS is lost: the subscriptions of the connection are  *)
(* gone and disconnectedEvent calls _on_disconnect.                        *)
ConnectionLost ==
    /\ engine.streamer.link
    /\ engine.streamer.events < MaxDisconnects
    /\ engine' = [engine EXCEPT !.streamer =
                     OnDisconnect([@ EXCEPT !.link = FALSE,
                                            !.requests = [s \in Symbols |-> 0]])]
    /\ UNCHANGED <<pc, publisher, entry_threshold, exit_threshold, kf,
                   current_position, current_half_life, update_count, last,
                   last_trade>>

(* _reconnect, lines 306-308: a thread leaves its sleep and calls          *)
(* connect(); whether a failed ib.connect emits disconnectedEvent is the   *)
(* library's choice (`fires`).                                             *)
ReconnectConnect(ok, fires) ==
    /\ engine.streamer.sleeping > 0
    /\ LET st == [engine.streamer EXCEPT !.sleeping = @ - 1]
           connected == StreamerConnected(st, ok)
       IN  engine' = [engine EXCEPT !.streamer =
               IF connected.is_connected /\ connected.link
               THEN [connected EXCEPT !.resubscribing =
                        Append(@, [ pc |-> "copy", symbols |-> << >> ])]
               ELSE IF fires /\ st.events < MaxDisconnects
               THEN OnDisconnect(st)
               ELSE st]
    /\ UNCHANGED <<pc, publisher, entry_threshold, exit_threshold, kf,
                   current_position, current_half_life, update_count, last,
                   last_trade>>

(* _reconnect, line 310 *)
ReconnectCopy(i) ==
    /\ engine.streamer.resubscribing[i].pc = "copy"
    /\ engine' = [engine EXCEPT !.streamer.resubscribing[i] =
                     [ pc |-> "clear",
                       symbols |-> SymbolsToResubscribe(
                                       engine.streamer.subscribed_symbols) ]]
    /\ UNCHANGED <<pc, publisher, entry_threshold, exit_threshold, kf,
                   current_position, current_half_life, update_count, last,
                   last_trade>>

(* _reconnect, line 311 *)
ReconnectClear(i) ==
    /\ engine.streamer.resubscribing[i].pc = "clear"
    /\ engine' = [engine EXCEPT !.streamer.subscribed_symbols = << >>,
                                !.streamer.resubscribing[i].pc = "subscribe"]
    /\ UNCHANGED <<pc, publisher, entry_threshold, exit_threshold, kf,
                   current_position, current_half_life, update_count, last,
                   last_trade>>

(* _reconnect, lines 312-313: the thread resubscribes and ends *)
ReconnectSubscribe(i) ==
    /\ engine.streamer.resubscribing[i].pc = "subscribe"
    /\ LET st == engine.streamer
           rest == [ j \in 1..(Len(st.resubscribing) - 1) |->
                       IF j < i THEN st.resubscribing[j]
                       ELSE st.resubscribing[j + 1] ]
       IN  engine' = [engine EXCEPT !.streamer =
               [ SubscribeToSymbols(st, st.resubscribing[i].symbols)
                   EXCEPT !.resubscribing = rest ]]
    /\ UNCHANGED <<pc, publisher, entry_threshold, exit_threshold, kf,
                   current_position, current_half_life, update_count, last,
                   last_trade>>

(* reset() that also flattens the position *)
KalmanResetFlat ==
    /\ kf' = KFResetState(kf)
    /\ current_position' = FLAT
    /\ last' = Call("reset")
    /\ UNCHANGED <<engine, pc, publisher, entry_threshold, exit_threshold,
                   current_half_life, update_count, last_trade>>

(* PairsKalmanFilter.reset() on the strategy's filter *)
KalmanReset ==
    /\ kf' = KFResetState(kf)
    /\ last' = Call("reset")
    /\ UNCHANGED <<engine, pc, publisher, entry_threshold, exit_threshold, current_position,
                   current_half_life, update_count, last_trade>>

(* PairsKalmanFilter.get_current_state(): {} when not initialized *)
GetCurrentState ==
    /\ last' = [ Call("get_current_state") EXCEPT
                     !.ok = kf.is_initialized,
                     !.z = IF kf.is_initialized THEN kf.z ELSE 0 ]
    /\ UNCHANGED <<engine, pc, publisher, entry_threshold, exit_threshold, kf, current_position,
                   current_half_life, update_count, last_trade>>

(* get_strategy_state() that stores the default it reports *)
GetStrategyStateStoring ==
    /\ last' = [ Call("get_strategy_state") EXCEPT
                     !.half_life = Inf,
                     !.z = IF kf.is_initialized THEN kf.z ELSE 0 ]
    /\ current_half_life' = Inf
    /\ UNCHANGED <<engine, pc, publisher, entry_threshold, exit_threshold, kf, current_position,
                   update_count, last_trade>>

(* PairsTradingStrategy.get_strategy_state(): the attribute `half_life`    *)
(* read on line 432 is never assigned, so the default inf is reported.     *)
GetStrategyState ==
    /\ last' = [ Call("get_strategy_state") EXCEPT
                     !.half_life = Inf,
                     !.z = IF kf.is_initialized THEN kf.z ELSE 0 ]
    /\ UNCHANGED <<engine, pc, publisher, entry_threshold, exit_threshold, kf, current_position,
                   current_half_life, update_count, last_trade>>

(* PairsKalmanFilter.get_historical_data(): {} when not initialized *)
GetHistoricalData ==
    /\ last' = [ Call("get_historical_data") EXCEPT !.ok = kf.is_initialized ]
    /\ UNCHANGED <<engine, pc, publisher, entry_threshold, exit_threshold, kf, current_position,
                   current_half_life, update_count, last_trade>>

(* PairsKalmanFilter.get_confidence() called by a reader *)
GetConfidenceCall ==
    /\ last' = [ Call("get_confidence") EXCEPT !.confidence = GetConfidence(kf) ]
    /\ UNCHANGED <<engine, pc, publisher, entry_threshold, exit_threshold, kf, current_position,
                   current_half_life, update_count, last_trade>>

(* SignalPublisher.disconnect() from its first line to its last *)
PublisherDisconnected(p) ==
    [p EXCEPT !.stop_heartbeat = TRUE, !.socket = "none", !.is_connected = FALSE]

(* MarketDataStreamer.stop(): disconnect() acts on a connected streamer    *)
(* only; ib.disconnect() ends the connection, and whether it emits         *)
(* disconnectedEvent, which calls _on_disconnect, is the library's choice  *)
(* (`fires`).                                                              *)
StreamerStopped(st, fires) ==
    IF ~st.is_connected THEN st
    ELSE LET down == [st EXCEPT !.link = FALSE,
                                !.requests = [s \in Symbols |-> 0],
                                !.is_connected = FALSE]
         IN  IF fires THEN OnDisconnect(down) ELSE down

(* the loop of _main_loop never testing its flags *)
LoopContinuesAlways(e) == TRUE

(* _main_loop, line 295: the loop test *)
LoopContinues(e) == e.is_running /\ ~e.shutdown_event

(* stop(), lines 279-289: the flags, the streamer, the global publisher *)
EngineStopped(e, fires) ==
    [e EXCEPT !.is_running = FALSE,
              !.shutdown_event = TRUE,
              !.streamer = StreamerStopped(@, fires),
              !.publisher_global = FALSE,
              !.stops = @ + 1]

(* shutdown_signal_publisher(), signaler.py:300-306 *)
PublisherShutDown(e, p) ==
    IF e.publisher_global THEN PublisherDisconnected(p) ELSE p

(* initialize(), lines 110-114: get_signal_publisher creates the global    *)
(* publisher and connects it, and ignores what connect() returns.          *)
EngineInitialize(bind_ok) ==
    /\ engine.phase = "created"
    /\ ~engine.publisher_global
    /\ engine.stops = 0
    /\ engine' = [engine EXCEPT !.publisher_global = TRUE]
    /\ publisher' = PublisherConnected(publisher, bind_ok)
    /\ UNCHANGED <<pc, entry_threshold, exit_threshold, kf,
                   current_position, current_half_life, update_count, last,
                   last_trade>>

(* stop() called by another thread while the engine's thread is in start() *)
ExternalStop(fires) ==
    /\ engine.phase \in {"loading", "running"}
    /\ engine.stops < MaxStops
    /\ engine' = EngineStopped(engine, fires)
    /\ publisher' = PublisherShutDown(engine, publisher)
    /\ UNCHANGED <<pc, entry_threshold, exit_threshold, kf,
                   current_position, current_half_life, update_count, last,
                   last_trade>>

(* signal_handler, lines 534-539: stop(), then sys.exit(0) raises          *)
(* SystemExit in the engine's thread, which no handler of the engine       *)
(* catches.                                                                *)
SignalHandler(fires) ==
    /\ engine.phase \in {"loading", "running"}
    /\ engine' = [EngineStopped(engine, fires) EXCEPT !.phase = "exiting"]
    /\ publisher' = PublisherShutDown(engine, publisher)
    /\ UNCHANGED <<pc, entry_threshold, exit_threshold, kf,
                   current_position, current_half_life, update_count, last,
                   last_trade>>

(* _main_loop, lines 295 and 319: the loop test fails, stop(), return *)
LoopExit(fires) ==
    /\ engine.phase = "running"
    /\ ~LoopContinues(engine)
    /\ engine' = [EngineStopped(engine, fires) EXCEPT !.phase = "returned"]
    /\ publisher' = PublisherShutDown(engine, publisher)
    /\ UNCHANGED <<pc, entry_threshold, exit_threshold, kf,
                   current_position, current_half_life, update_count, last,
                   last_trade>>

(* main(), lines 561-566: start() returned or raised; the finally block    *)
(* calls stop().                                                           *)
MainFinally(fires) ==
    /\ engine.phase \in {"returned", "exiting", "failed"}
    /\ engine' = [EngineStopped(engine, fires) EXCEPT !.phase = "finished"]
    /\ publisher' = PublisherShutDown(engine, publisher)
    /\ UNCHANGED <<pc, entry_threshold, exit_threshold, kf,
                   current_position, current_half_life, update_count, last,
                   last_trade>>

(* start(), lines 242-274: the flags are set, the streamer is up and       *)
(* subscribed, historical loading begins                                   *)
EngineStart ==
    /\ engine.phase = "created"
    /\ engine' = [engine EXCEPT
                    !.phase = "loading",
                    !.is_running = TRUE,
                    !.shutdown_event = FALSE,
                    !.streamer = [ SubscribeToSymbols(StreamerConnected(@, TRUE),
                                                      AllSymbols)
                                     EXCEPT !.wanted = Symbols ]]
    /\ UNCHANGED <<pc, publisher, entry_threshold, exit_threshold, kf,
                   current_position, current_half_life, update_count, last,
                   last_trade>>

(* One iteration of the loop of _load_historical_data.  The try block      *)
(* encloses the whole loop and its handler re-raises (lines 238-240): an   *)
(* exception leaves the loop and start().                                  *)
LoadHistoricalData(outcome) ==
    /\ engine.phase = "loading"
    /\ engine' =
         [engine EXCEPT
            !.hist[engine.idx] = outcome,
            !.has_data[engine.idx] = outcome \in {"initialized", "init_failed"},
            !.idx = IF outcome = "raised" THEN @ ELSE @ + 1,
            !.phase = IF outcome = "raised" THEN "failed"
                      ELSE IF engine.idx = NumPairs THEN "running"
                      ELSE "loading"]
    /\ UNCHANGED <<pc, publisher, entry_threshold, exit_threshold, kf,
                   current_position, current_half_life, update_count, last,
                   last_trade>>

(* One iteration of _main_loop: _process_market_data records a validated   *)
(* row for the pairs of `fresh`, then _generate_signals calls               *)
(* strategy.update for every pair whose price_data is not empty            *)
(* (strategy.update and _send_trade_signal catch their own exceptions).    *)
MainLoopIteration(fresh) ==
    /\ engine.phase = "running"
    /\ LoopContinues(engine)
    /\ engine.ticks < MaxTicks
    /\ LET data == [p \in Pairs |-> engine.has_data[p] \/ p \in fresh]
       IN  engine' = [engine EXCEPT
                        !.has_data = data,
                        !.updated = data,
                        !.realtime = [p \in Pairs |-> engine.realtime[p] \/ p \in fresh],
                        !.fed = [p \in Pairs |->
                                   LatestRow(p \in fresh, engine.realtime[p],
                                             engine.has_data[p])],
                        !.ticks = @ + 1]
    /\ UNCHANGED <<pc, publisher, entry_threshold, exit_threshold, kf,
                   current_position, current_half_life, update_count, last,
                   last_trade>>

Next ==
    \/ \E d \in DataSets : StrategyInitialize(d)
    \/ \E a \in Prices, b \in Prices : StrategyUpdate(a, b)
    \/ \E a \in Prices, b \in Prices : KalmanUpdate(a, b)
    \/ KalmanReset
    \/ GetCurrentState
    \/ GetStrategyState

Spec == Init /\ [][Next]_vars

(* The estimator and its readers, on data sets of several lengths. *)
NextFilter ==
    \/ \E d \in FilterDataSets : StrategyInitialize(d)
    \/ \E a \in Prices, b \in Prices : StrategyUpdate(a, b)
    \/ \E a \in Prices, b \in Prices : KalmanUpdate(a, b)
    \/ KalmanReset
    \/ GetCurrentState
    \/ GetStrategyState
    \/ GetHistoricalData
    \/ GetConfidenceCall

SpecFilter == Init /\ [][NextFilter]_vars

(* The filter on data with non-finite prices and with a prior taken from  *)
(* the configuration: the trace is negative exactly under a negative prior.*)
NextNumeric ==
    \/ \E d \in NumericDataSets :
           /\ Usable(d) => (d.sv < 0 <=> kf.initial_state_covariance < 0)
           /\ StrategyInitialize(d)
    \/ \E a \in Prices, b \in Prices : StrategyUpdate(a, b)
    \/ \E a \in Prices, b \in Prices : KalmanUpdate(a, b)
    \/ KalmanReset
    \/ GetCurrentState
    \/ GetConfidenceCall

SpecNumeric == InitNumeric /\ [][NextNumeric]_vars

(* One thread inside PairsKalmanFilter.update, readers on other threads;   *)
(* initialize runs on the updating thread, between updates.                *)
NextThreads ==
    \/ \E d \in FilterDataSets : pc = "idle" /\ StrategyInitialize(d)
    \/ \E a \in Prices, b \in Prices : UpdateEnter(a, b)
    \/ UpdateTry
    \/ UpdateExcept
    \/ GetCurrentState
    \/ GetStrategyState
    \/ GetConfidenceCall

SpecThreads == Init /\ [][NextThreads]_vars

(* The publisher, the thread that calls it and its heartbeat threads. *)
NextPublisher ==
    \/ \E bind_ok \in BOOLEAN : PublisherConnect(bind_ok)
    \/ DisconnectBegin
    \/ DisconnectClose
    \/ DisconnectUnset
    \/ DisconnectReturn
    \/ \E method \in SendMethods : SendCall(method)
    \/ SendTopic
    \/ SendPayload
    \/ \E i \in 1..MaxConnects :
           /\ i <= Len(publisher.threads)
           /\ \/ HeartbeatLoop(i)
              \/ HeartbeatCheck(i)
              \/ HeartbeatTopic(i)
              \/ HeartbeatPayload(i)

SpecPublisher == Init /\ [][NextPublisher]_vars

(* parse_message applied to every text. *)
NextMessages == \E text \in Texts : ParseMessageCall(text)

SpecMessages == Init /\ [][NextMessages]_vars

(* The strategy when get_confidence may return from its handler. *)
NextFallback ==
    \/ \E d \in DataSets : StrategyInitialize(d)
    \/ \E a \in Prices, b \in Prices, raises \in BOOLEAN :
           StrategyUpdateStep(a, b, MaxFallback, raises)
    \/ KalmanReset
    \/ GetConfidenceCall

SpecFallback == Init /\ [][NextFallback]_vars

(* One pair of the engine: its strategy, the ticks and the publisher. *)
NextSignals ==
    \/ \E d \in FilterDataSets : StrategyInitialize(d)
    \/ \E a \in Prices, b \in Prices, fails \in {"none", "send_string", "send_json"} :
           GenerateSignals(a, b, fails)
    \/ \E bind_ok \in BOOLEAN :
           /\ publisher.socket = "none"   \* get_signal_publisher connects once
           /\ PublisherConnect(bind_ok)

SpecSignals == Init /\ [][NextSignals]_vars

(* The streamer, the connection and the reconnect threads. *)
NextStreamer ==
    \/ \E ok \in BOOLEAN : StreamerStart(ok)
    \/ EngineSubscribe
    \/ ConnectionLost
    \/ \E ok \in BOOLEAN, fires \in BOOLEAN : ReconnectConnect(ok, fires)
    \/ \E i \in 1..MaxDisconnects :
           /\ i <= Len(engine.streamer.resubscribing)
           /\ \/ ReconnectCopy(i)
              \/ ReconnectClear(i)
              \/ ReconnectSubscribe(i)

SpecStreamer == Init /\ [][NextStreamer]_vars

(* The engine from initialize to the end of main.  The engine's thread    *)
(* keeps running: a loop whose test fails is left, and main reaches its    *)
(* finally block.  Historical loading either raises or initializes the    *)
(* pair, and a tick brings data for no pair or for all of them.            *)
NextShutdown ==
    \/ \E bind_ok \in BOOLEAN : EngineInitialize(bind_ok)
    \/ engine.publisher_global /\ EngineStart
    \/ \E outcome \in {"raised", "initialized"} : LoadHistoricalData(outcome)
    \/ \E fresh \in {{}, Pairs} : MainLoopIteration(fresh)
    \/ \E fires \in BOOLEAN : ExternalStop(fires)
    \/ \E fires \in BOOLEAN : SignalHandler(fires)
    \/ \E fires \in BOOLEAN : LoopExit(fires)
    \/ \E fires \in BOOLEAN : MainFinally(fires)

SpecShutdown ==
    /\ Init
    /\ [][NextShutdown]_vars
    /\ WF_vars(\E fires \in BOOLEAN : LoopExit(fires))
    /\ WF_vars(\E fires \in BOOLEAN : MainFinally(fires))

(* Two periods of the half-life cadence. *)
NextCadence ==
    \/ \E d \in FilterDataSets : StrategyInitialize(d)
    \/ \E a \in Prices, b \in Prices : StrategyUpdateWithin(a, b, MaxCadence)
    \/ KalmanReset

SpecCadence == Init /\ [][NextCadence]_vars

(* The engine's passes over its pairs. *)
NextEngine ==
    \/ EngineStart
    \/ \E outcome \in HistOutcomes : LoadHistoricalData(outcome)
    \/ \E fresh \in SUBSET Pairs : MainLoopIteration(fresh)

SpecEngine == Init /\ [][NextEngine]_vars

----------------------------------------------------------------------------
(* Properties of the signal decision machine *)

Enters == {"ENTER_LONG_SPREAD", "ENTER_SHORT_SPREAD"}

(* The last call was a strategy update that reached _generate_signal. *)
Decided == last.op = "update" /\ last.raised = "none"

(* Both gates let the last update through. *)
GatesPassed ==
    /\ last.half_life <= max_half_life_days
    /\ last.confidence >= MinConfidence

Quiet == last.signal = "NO_SIGNAL" /\ current_position = last.pos_before

(* C1: an update gated on a half-life above max_half_life_days emits       *)
(* NO_SIGNAL and keeps the position, whatever the position, the z-score    *)
(* and the confidence are.                                                 *)
HalfLifeGateBlocks ==
    (last.op = "update" /\ last.half_life > max_half_life_days) => Quiet

(* C1 witness: a long position whose exit rule is met and whose confidence *)
(* passes is kept because the half-life is too long.                       *)
HalfLifeGateWitness ==
    /\ Decided
    /\ last.half_life > max_half_life_days
    /\ last.confidence >= MinConfidence
    /\ last.pos_before = LONG_SPREAD
    /\ last.z >= -exit_threshold
    /\ Quiet

(* C2: an update whose confidence is below 0.7 emits NO_SIGNAL and keeps   *)
(* the position, in every position and for every z-score.                  *)
ConfidenceGateBlocks ==
    (last.op = "update" /\ last.confidence < MinConfidence) => Quiet

(* C2 witness: flat, half-life fine, z beyond the entry threshold, and the *)
(* confidence just below 0.7 suppresses the entry.                         *)
ConfidenceGateWitness ==
    /\ Decided
    /\ last.confidence = MinConfidence - 1
    /\ last.half_life <= max_half_life_days
    /\ last.pos_before = FLAT
    /\ last.z >= entry_threshold
    /\ Quiet

(* C3: from FLAT with both gates passing, z <= -entry_threshold enters     *)
(* long, z >= entry_threshold enters short (the boundaries included), and  *)
(* any other z emits NO_SIGNAL and stays FLAT.                             *)
EntryRule ==
    (Decided /\ GatesPassed /\ last.pos_before = FLAT) =>
        /\ last.z <= -entry_threshold =>
               (last.signal = "ENTER_LONG_SPREAD" /\ current_position = LONG_SPREAD)
        /\ last.z >= entry_threshold =>
               (last.signal = "ENTER_SHORT_SPREAD" /\ current_position = SHORT_SPREAD)
        /\ (last.z > -entry_threshold /\ last.z < entry_threshold) =>
               (last.signal = "NO_SIGNAL" /\ current_position = FLAT)

(* C3 witness: an entry exactly on the upper boundary. *)
EntryRuleWitness ==
    /\ Decided /\ GatesPassed
    /\ last.pos_before = FLAT
    /\ last.z = entry_threshold
    /\ last.signal = "ENTER_SHORT_SPREAD"
    /\ current_position = SHORT_SPREAD

(* C4: with both gates passing, a long position exits exactly when         *)
(* z >= -exit_threshold and a short one exactly when z <= exit_threshold;  *)
(* otherwise the update emits NO_SIGNAL and keeps the position.            *)
ExitRule ==
    /\ (Decided /\ GatesPassed /\ last.pos_before = LONG_SPREAD) =>
           IF last.z >= -exit_threshold
           THEN last.signal = "EXIT_POSITION" /\ current_position = FLAT
           ELSE Quiet
    /\ (Decided /\ GatesPassed /\ last.pos_before = SHORT_SPREAD) =>
           IF last.z <= exit_threshold
           THEN last.signal = "EXIT_POSITION" /\ current_position = FLAT
           ELSE Quiet

(* C4 witness: a long position closed exactly on the exit boundary. *)
ExitRuleWitness ==
    /\ Decided /\ GatesPassed
    /\ last.pos_before = LONG_SPREAD
    /\ last.z = -exit_threshold
    /\ last.signal = "EXIT_POSITION"
    /\ current_position = FLAT

(* C5: an entry is emitted only from FLAT and an exit only from a          *)
(* position, so the signals other than NO_SIGNAL alternate enter, exit,    *)
(* enter, ... and no update moves the position between LONG_SPREAD and     *)
(* SHORT_SPREAD.                                                           *)
NoReentry ==
    last.op = "update" =>
        /\ last.signal \in Enters =>
               (last.pos_before = FLAT /\ last.trade_before # "enter")
        /\ last.signal = "EXIT_POSITION" =>
               (last.pos_before # FLAT /\ last.trade_before = "enter")
        /\ (last.pos_before # FLAT /\ current_position # FLAT) =>
               current_position = last.pos_before

(* C5 witness: long already, gates passing, z at or below -entry again:    *)
(* no second entry.                                                        *)
NoReentryWitness ==
    /\ Decided /\ GatesPassed
    /\ last.pos_before = LONG_SPREAD
    /\ last.trade_before = "enter"
    /\ last.z <= -entry_threshold
    /\ Quiet

(* C6: when 0 <= exit_threshold < entry_threshold, the update that follows *)
(* an entering update and presents the same z-score (gates passing) emits  *)
(* NO_SIGNAL and keeps the position.                                       *)
Hysteresis ==
    ( /\ Decided /\ GatesPassed
      /\ last.after_entry
      /\ last.z = last.entry_z
      /\ 0 <= exit_threshold /\ exit_threshold < entry_threshold ) => Quiet

(* C6 witness: the update after a short entry sees the entry z again and   *)
(* holds the position.                                                     *)
HysteresisWitness ==
    /\ Decided /\ GatesPassed
    /\ last.after_entry
    /\ last.z = last.entry_z
    /\ exit_threshold < entry_threshold
    /\ last.pos_before = SHORT_SPREAD
    /\ Quiet

(* C7: after every update the returned signal matches the transition made  *)
(* by that call, and the returned current_position is the stored one.      *)
DecisionAtomic ==
    last.op = "update" =>
        /\ last.signal = "ENTER_LONG_SPREAD" <=>
               (last.pos_before = FLAT /\ current_position = LONG_SPREAD)
        /\ last.signal = "ENTER_SHORT_SPREAD" <=>
               (last.pos_before = FLAT /\ current_position = SHORT_SPREAD)
        /\ last.signal = "EXIT_POSITION" <=>
               (last.pos_before # FLAT /\ current_position = FLAT)
        /\ last.signal = "NO_SIGNAL" <=> current_position = last.pos_before
        /\ last.ret_position = current_position

(* C7 witness: an exit from a short position, reported as FLAT. *)
DecisionAtomicWitness ==
    /\ Decided
    /\ last.signal = "EXIT_POSITION"
    /\ last.pos_before = SHORT_SPREAD
    /\ current_position = FLAT
    /\ last.ret_position = FLAT

(* C8: only an update that emits a signal changes the position;            *)
(* initialize, reset, the reads and a failed update leave it alone.        *)
PositionFrame ==
    (last.op # "update" \/ last.raised # "none" \/ last.signal = "NO_SIGNAL")
        => current_position = last.pos_before

(* C8 witness: a successful initialize after a reset, position still open. *)
PositionFrameWitness ==
    /\ last.op = "initialize"
    /\ last.ok
    /\ ~last.had_state
    /\ current_position # FLAT

(* C9: PairsKalmanFilter.update on an estimator that is not initialized    *)
(* raises the not-initialized error and leaves the estimator as it was.    *)
UpdateNeedsInitialize ==
    [][ (last'.op = "kf_update" /\ ~kf.is_initialized)
            => (last'.raised = "RuntimeError" /\ kf' = kf) ]_vars

(* C9 witness: the error raised after a failed re-initialization, with the *)
(* series of the earlier initialization still stored.                      *)
UpdateNeedsInitializeWitness ==
    /\ last.op = "kf_update"
    /\ last.raised = "RuntimeError"
    /\ ~kf.is_initialized
    /\ kf.has_state

(* C10: initialize with series of different lengths or with fewer than 50  *)
(* points reports failure and leaves the estimator not initialized.        *)
InitializeRejects ==
    (last.op = "initialize" /\ (last.lenA # last.lenB \/ last.lenA < MinPoints))
        => (~last.ok /\ ~kf.is_initialized)

(* C10 witness: 49 aligned points are rejected. *)
InitializeRejectsWitness ==
    /\ last.op = "initialize"
    /\ last.lenA = last.lenB
    /\ last.lenA = MinPoints - 1
    /\ ~last.ok
    /\ ~kf.is_initialized

----------------------------------------------------------------------------
(* Properties of the estimator's life cycle (SpecFilter) *)

ReadOps == {"get_strategy_state", "get_current_state",
            "get_historical_data", "get_confidence"}

HistoryGrows ==
    [][ (last'.op \in {"update", "kf_update"} /\ kf.is_initialized)
            => kf'.n_series = kf.n_series + 1 ]_vars

(* C13: reset from any estimator state leaves the same cleared,            *)
(* uninitialized state, also when the estimator was already cleared.       *)
ResetClears ==
    last.op = "reset" =>
        /\ ~kf.is_initialized
        /\ ~kf.has_state
        /\ kf.n_states = 0 /\ kf.n_series = 0
        /\ kf = KFCleared

(* C13 witness: a reset of an estimator that held series and had been      *)
(* updated.                                                                *)
ResetClearsWitness ==
    /\ last.op = "reset"
    /\ last.had_state
    /\ update_count > 0
    /\ kf = KFCleared

(* C14: a strategy update issued after a reset and before a new initialize *)
(* ends in the handled not-initialized error, returns NO_SIGNAL and keeps  *)
(* the position; once the estimator is initialized again updates reach the *)
(* decision with the estimator's z-score.                                  *)
ResetSafe ==
    last.op = "update" =>
        /\ ~last.had_state =>
               (last.raised = "RuntimeError" /\ Quiet)
        /\ kf.is_initialized =>
               (last.raised = "none" /\ last.z = kf.z)

(* C14 witness: an open position, the estimator reset, and the update      *)
(* answered with NO_SIGNAL.                                                *)
ResetSafeWitness ==
    /\ last.op = "update"
    /\ ~last.had_state
    /\ last.raised = "RuntimeError"
    /\ current_position # FLAT
    /\ Quiet

(* C15: an update of an initialized estimator that ends in the exception   *)
(* handler returns the last known values and leaves the stored estimator   *)
(* state exactly as it was.                                                *)
UpdateFailureKeepsState ==
    [][ (last'.op \in {"update", "kf_update"} /\ kf.is_initialized
         /\ last'.caught # "none")
            => (kf' = kf /\ last'.z = kf.z) ]_vars

(* C15 witness: the handler ran on an initialized estimator whose state    *)
(* and series still have the same length.                                  *)
UpdateFailureKeepsStateWitness ==
    /\ last.op = "kf_update"
    /\ last.caught = "IndexError"
    /\ kf.is_initialized
    /\ last.z = kf.z
    /\ kf.n_states = kf.n_series

(* C16: when the estimator update fails, the result of the strategy update *)
(* carries an explicit error or the last known values, never placeholders. *)
NoFabricatedValues ==
    (last.op = "update" /\ last.raised # "none") =>
        \/ last.reports_error
        \/ (last.had_state /\ last.z = kf.z /\ last.confidence = GetConfidence(kf))

(* C17: the four reads change neither the estimator, nor the position, nor *)
(* the half-life, nor the update counter.                                  *)
ReadsAreFree ==
    [][ last'.op \in ReadOps
            => UNCHANGED <<kf, current_position, current_half_life, update_count>> ]_vars

(* C17 witness: get_strategy_state on an initialized, updated strategy     *)
(* with an open position and a finite half-life.                           *)
ReadsAreFreeWitness ==
    /\ last.op = "get_strategy_state"
    /\ kf.is_initialized
    /\ update_count > 0
    /\ current_position # FLAT
    /\ current_half_life = max_half_life_days

(* C18: get_strategy_state reports the stored position, the half-life the  *)
(* next update would gate on, and the estimator's latest z-score.          *)
SnapshotCurrent ==
    last.op = "get_strategy_state" =>
        /\ last.ret_position = current_position
        /\ last.half_life = current_half_life
        /\ kf.is_initialized => last.z = kf.z

(* C20: an initialized estimator becomes uninitialized only by reset. *)
OnlyResetUninitializes ==
    [][ (kf.is_initialized /\ ~kf'.is_initialized) => last'.op = "reset" ]_vars

----------------------------------------------------------------------------
(* Properties of the numbers the estimator holds (SpecNumeric) *)

(* Every state mean is finite: no spread is NaN. *)
TrajectoryFinite(k) == k.n_valid = k.n_series

(* A matrix with a negative trace has a negative eigenvalue. *)
CovariancePSD(k) == k.sv >= 0

(* The last call ran _calculate_half_life and stored its result. *)
Computed ==
    \/ last.op = "initialize" /\ last.ok
    \/ last.op = "update" /\ last.recomputed

(* C21: initialize neither reports success nor marks the estimator         *)
(* initialized when a value of the resulting state trajectory is NaN or    *)
(* infinite.                                                               *)
NonFiniteRejected ==
    /\ (last.op = "initialize" /\ last.ok) => TrajectoryFinite(kf)
    /\ kf.is_initialized => TrajectoryFinite(kf)

(* C22: the state covariance is symmetric positive-semidefinite after      *)
(* every successful initialize and after every update; an estimator whose  *)
(* covariance is not is taken out of use, not updated further.             *)
CovarianceValid ==
    /\ (last.op = "initialize" /\ last.ok) => CovariancePSD(kf)
    /\ (last.op \in {"update", "kf_update"} /\ last.raised = "none")
           => CovariancePSD(kf)

(* C24: every value get_confidence returns, to a reader or to the strategy *)
(* update, lies in [0, 1], whatever state the estimator is in.             *)
ConfidenceInRange ==
    last.op \in {"get_confidence", "update"} =>
        (last.confidence >= 0 /\ last.confidence <= 20)

(* C24 witness: a covariance of negative trace scores above 1 and the      *)
(* value returned after some updates is exactly 1.                         *)
ConfidenceInRangeWitness ==
    /\ last.op = "get_confidence"
    /\ kf.is_initialized
    /\ kf.sv < 0
    /\ update_count > 0
    /\ last.confidence = 20

(* C29: every half-life that is computed is the infinite sentinel or a     *)
(* strictly positive finite number; it is infinite when the fitted slope   *)
(* is >= 0, when there is too little history and when the fit fails.       *)
HalfLifeSign ==
    /\ current_half_life # NoneValue =>
           \/ current_half_life = Inf
           \/ (current_half_life > 0 /\ current_half_life < Inf)
    /\ Computed =>
           /\ kf.beta >= 0 => current_half_life = Inf
           /\ kf.n_valid < MinSpreads => current_half_life = Inf
           /\ kf.fit_raises => current_half_life = Inf

(* C29 witness: the steepest negative slope gives the shortest half-life,  *)
(* one day.                                                                *)
HalfLifeSignWitness ==
    /\ Computed
    /\ kf.beta = -Ln2
    /\ ~kf.fit_raises
    /\ current_half_life = 1

(* C30: the half-life is infinite for lack of data exactly when fewer than *)
(* 30 aligned (lagged, delta) pairs exist; with 30 or more aligned pairs   *)
(* and a negative fitted slope it is -ln(2)/slope.                         *)
HalfLifeDataRequirement ==
    Computed =>
        /\ AlignedPairs(kf.n_valid) < MinAligned => current_half_life = Inf
        /\ (AlignedPairs(kf.n_valid) >= MinAligned /\ kf.beta < 0 /\ ~kf.fit_raises)
               => current_half_life = Ln2 \div (-kf.beta)

----------------------------------------------------------------------------
(* Properties of an update seen from other threads (SpecThreads) *)

----------------------------------------------------------------------------
(* Properties of the half-life cadence (SpecCadence) *)

(* C28: the half-life is recomputed on every 20th completed update and on  *)
(* no other; the other updates leave the stored half-life as it was, and   *)
(* the stored value is the one the update gates on.                        *)
HalfLifeCadence ==
    [][ (last'.op = "update" /\ last'.raised = "none") =>
          /\ last'.recomputed <=> (update_count' % HalfLifeEvery = 0)
          /\ ~last'.recomputed => current_half_life' = current_half_life
          /\ last'.half_life = current_half_life' ]_vars

(* C28 witness: the 40th update recomputes a half-life above the limit and *)
(* the entry the z-score asks for is gated away.                           *)
HalfLifeCadenceWitness ==
    /\ Decided
    /\ update_count = 2 * HalfLifeEvery
    /\ last.recomputed
    /\ last.half_life > max_half_life_days
    /\ last.z <= -entry_threshold
    /\ Quiet

----------------------------------------------------------------------------
(* Properties of the engine's passes over the pairs (SpecEngine) *)

(* C19: a failure while one pair is processed does not keep the other      *)
(* pairs from being handled in the same pass: when the historical loading  *)
(* pass is over every pair has been attempted, and a tick updates every    *)
(* pair that has prices.                                                   *)
PairsIsolated ==
    /\ engine.phase \in {"running", "failed"} =>
           \A p \in Pairs : engine.hist[p] # "pending"
    /\ engine.ticks > 0 =>
           \A p \in Pairs : engine.has_data[p] => engine.updated[p]

(* C25: the engine gives every price observation to update at most once:   *)
(* in a tick strategy.update receives only a pair of prices recorded in    *)
(* that tick, never a row consumed in an earlier tick and never the last   *)
(* row of the historical data.                                             *)
EachObservationOnce ==
    \A p \in Pairs : engine.fed[p] \in {"none", "fresh"}

----------------------------------------------------------------------------
(* Properties of the SignalPublisher (SpecPublisher) *)

(* C26: a successful connect sets is_connected and disconnect clears it;   *)
(* a send_* call made while the publisher is not connected returns False   *)
(* and hands nothing to the socket; once the socket is closed no frame,    *)
(* heartbeat included, is sent on it.                                      *)
ConnectionState ==
    [][ /\ (last' # last /\ last'.op = "connect" /\ last'.ok)
               => publisher'.is_connected
        /\ (last' # last /\ last'.op = "disconnect")
               => (~publisher'.is_connected /\ publisher'.socket = "none")
        /\ (publisher.main = "idle" /\ ~publisher.is_connected
               /\ publisher'.main # "idle")
               => publisher'.main = "join"
        /\ (last' # last /\ last'.op \in SendMethods /\ ~publisher.is_connected)
               => (~last'.ok /\ publisher'.wire = publisher.wire)
        /\ publisher.socket # "open" => publisher'.wire = publisher.wire ]_vars

(* C26 witness: after a disconnect a send_* call is refused while a        *)
(* heartbeat thread that had passed its tests is still alive; the frames   *)
(* on the wire are those sent before.                                      *)
ConnectionStateWitness ==
    /\ last.op \in SendMethods
    /\ ~last.ok
    /\ ~publisher.is_connected
    /\ publisher.socket = "none"
    /\ publisher.stop_heartbeat
    /\ Len(publisher.wire) > 0
    /\ \E i \in 1..Len(publisher.threads) : publisher.threads[i] \in {"send", "more"}

----------------------------------------------------------------------------
(* Properties of the message protocol (SpecMessages) *)

(* C27: parse_message(m.to_json()) returns an object of the class of m     *)
(* with the same field values, for every message type, HEARTBEAT included; *)
(* text that is not JSON or has an unknown message_type raises ValueError  *)
(* and yields no object.                                                   *)
MessageRoundTrip ==
    last.op = "parse_message" =>
        /\ \A m \in Messages :
               last.text = ToJson(m) => (last.raised = "none" /\ last.parsed = m)
        /\ (\/ last.text.json # "object"
            \/ "message_type" \notin DOMAIN last.text.members
            \/ Decode(last.text.members["message_type"]) \notin MessageTypeValues)
               => (last.raised = "ValueError" /\ last.parsed = [ cls |-> "none" ])

----------------------------------------------------------------------------
(* Properties of the confidence inputs (SpecFilter) *)

(* C31: the stability component of the confidence is computed over the     *)
(* hedge ratios of the 20 most recent updates and the state component over *)
(* the covariance of the latest update: every update of an initialized     *)
(* estimator that returns puts its hedge ratio into the window and its     *)
(* covariance last.                                                        *)
ConfidenceWindow ==
    [][ (last'.op \in {"update", "kf_update"} /\ kf.is_initialized
         /\ last'.raised = "none" /\ last' # last)
            => /\ Min2(Window, kf'.n_online) = Min2(Window, kf.n_online + 1)
               /\ kf'.n_covs = kf.n_covs + 1 ]_vars

(* C32: the spread an update returns is the innovation of the observation  *)
(* it was given, and the z-score divides it by the square root of the      *)
(* innovation variance; neither comes from the updated state nor from an   *)
(* earlier observation.                                                    *)
SpreadIsInnovation ==
    (last.op \in {"update", "kf_update"} /\ last.raised = "none")
        => last.source = "innovation"

----------------------------------------------------------------------------
(* Properties of the strategy on an estimator that is not initialized (Spec) *)

(* C33: while the estimator is not initialized, a strategy update returns  *)
(* NO_SIGNAL, keeps the position and does not advance the update counter,  *)
(* whatever the prices and however often it is called; the engine          *)
(* publishes only signals other than NO_SIGNAL.                            *)
UninitializedIsQuiet ==
    [][ (last'.op = "update" /\ last' # last /\ ~kf.is_initialized)
            => /\ last'.signal = "NO_SIGNAL"
               /\ last'.ret_position = current_position
               /\ current_position' = current_position
               /\ update_count' = update_count
               /\ last_trade' = last_trade ]_vars

(* C33 witness: a position was entered, the estimator was reset, and the   *)
(* update that followed returned NO_SIGNAL with the position still held    *)
(* and the counter where it was.                                           *)
UninitializedIsQuietWitness ==
    /\ last.op = "update"
    /\ last.raised = "RuntimeError"
    /\ ~kf.is_initialized
    /\ last.signal = "NO_SIGNAL"
    /\ last.pos_before # FLAT
    /\ current_position = last.pos_before
    /\ update_count > 0

----------------------------------------------------------------------------
(* Properties of the confidence fallbacks (SpecFallback) *)

(* C34: both fallback values of get_confidence, 0.0 of an estimator that   *)
(* is not initialized and 0.5 of a computation that raised, are below the  *)
(* trading threshold: an update that got a fallback value emits NO_SIGNAL  *)
(* and keeps the position.                                                 *)
FallbackBlocks ==
    /\ (last.op = "update" /\ last.raised = "none" /\ last.fallback)
           => (ConfidenceGate(last.confidence) /\ Quiet)
    /\ (last.op = "get_confidence" /\ ~kf.is_initialized)
           => (last.confidence = 0 /\ ConfidenceGate(last.confidence))

(* C34 witness: a long spread is held, the z-score is past the exit        *)
(* threshold, the half-life is fine, the confidence computation raised:    *)
(* no exit.                                                                *)
FallbackBlocksWitness ==
    /\ last.op = "update" /\ last.raised = "none" /\ last.fallback
    /\ last.confidence = ConfidenceFallback
    /\ last.pos_before = LONG_SPREAD
    /\ last.z >= -exit_threshold
    /\ last.half_life <= max_half_life_days
    /\ Quiet

----------------------------------------------------------------------------
(* Properties of the publication of signals (SpecSignals) *)

(* C35: a tick hands a trade message to the publisher exactly when its     *)
(* update returned a signal other than NO_SIGNAL; a signal whose send      *)
(* failed leaves the position the strategy moved to, is not stored in      *)
(* signal_history, and is not returned again by the next tick.             *)
SignalDelivery ==
    [][ (last'.op = "update" /\ last' # last)
            => /\ engine'.attempted <=> last'.signal # "NO_SIGNAL"
               /\ engine'.sent =>
                      /\ engine'.attempted
                      /\ engine'.signal_history =
                             Append(engine.signal_history, last'.signal)
               /\ ~engine'.sent =>
                      /\ engine'.signal_history = engine.signal_history
                      /\ current_position' =
                             UpdatePositionTracking(current_position, last'.signal)
               /\ (last.op = "update" /\ last.signal # "NO_SIGNAL")
                      => last'.signal # last.signal ]_vars

(* C35 witness: an entry was published and stored, the exit that followed  *)
(* was handed to a connected publisher whose send raised: the position is  *)
(* flat and the history holds the entry only.                              *)
SignalDeliveryWitness ==
    /\ last.op = "update"
    /\ last.signal = "EXIT_POSITION"
    /\ engine.attempted /\ ~engine.sent
    /\ publisher.is_connected
    /\ current_position = FLAT /\ last.pos_before # FLAT
    /\ Len(engine.signal_history) = 1
    /\ engine.signal_history[1] \in Enters

----------------------------------------------------------------------------
(* Properties of the frames on the socket (SpecPublisher) *)

(* C36: every message leaves the publisher as one intact two-frame         *)
(* multipart: on the socket a topic frame is followed at once by the JSON  *)
(* frame of the same message, sent by the same thread, whatever the        *)
(* interleaving of the heartbeat thread with the calling thread.           *)
FramesIntact ==
    \A i \in 1..Len(publisher.wire) :
        LET f == publisher.wire[i] IN
        /\ (f.part = "topic" /\ i < Len(publisher.wire))
               => /\ publisher.wire[i + 1].part = "json"
                  /\ publisher.wire[i + 1].by = f.by
                  /\ publisher.wire[i + 1].topic = f.topic
        /\ f.part = "json"
               => /\ i > 1
                  /\ publisher.wire[i - 1].part = "topic"
                  /\ publisher.wire[i - 1].by = f.by

(* C37: after every successful connect, also one that follows a disconnect *)
(* of the same publisher, a heartbeat thread is running for as long as the *)
(* publisher stays connected.                                              *)
HeartbeatAlive ==
    (publisher.is_connected /\ publisher.main = "idle")
        => \E i \in 1..Len(publisher.threads) : publisher.threads[i] # "exited"

----------------------------------------------------------------------------
(* Properties of the MarketDataStreamer (SpecStreamer) *)

(* Every reconnect thread has ended and the streamer is connected. *)
Settled(st) ==
    st.is_connected /\ st.link /\ st.sleeping = 0 /\ st.resubscribing = << >>

(* C38: at most max_connection_attempts reconnections are started without  *)
(* a successful connect in between, every successful connect resets        *)
(* connection_attempts, and once a reconnection has succeeded and its      *)
(* thread has ended every symbol subscribed before is subscribed exactly   *)
(* once on the new connection.                                             *)
ReconnectionBounded ==
    [][ /\ engine'.streamer.started <= max_connection_attempts
        /\ (~engine.streamer.is_connected /\ engine'.streamer.is_connected)
               => engine'.streamer.connection_attempts = 0
        /\ Settled(engine'.streamer)
               => \A s \in engine'.streamer.wanted :
                      /\ engine'.streamer.requests[s] = 1
                      /\ InList(s, engine'.streamer.subscribed_symbols) ]_vars

----------------------------------------------------------------------------
(* Properties of the shutdown (SpecShutdown) *)

(* stop() has run: the flags it sets, which nothing but start() changes *)
Stopped(e) == ~e.is_running /\ e.shutdown_event

(* C39: once stop() has been called the main loop starts no further        *)
(* iteration and is left; a stop() on an engine that is already stopped    *)
(* changes nothing: the flags, the streamer and the publisher are as the   *)
(* first call left them.                                                   *)
ShutdownTerminates ==
    /\ [][ /\ Stopped(engine) => engine'.ticks = engine.ticks
           /\ Stopped(engine) => Stopped(engine')
           /\ (engine.stops >= 1 /\ engine'.stops = engine.stops + 1)
                  => /\ [engine' EXCEPT !.stops = engine.stops,
                                        !.phase = engine.phase] = engine
                     /\ publisher' = publisher ]_vars
    /\ (engine.phase = "running" /\ Stopped(engine))
           ~> engine.phase \in {"returned", "exiting", "finished"}

(* C39 witness: the engine ran a tick, stop() was called three times, from *)
(* outside, at the loop exit and in the finally block of main; the engine  *)
(* is stopped, the streamer and the publisher are disconnected.            *)
ShutdownTerminatesWitness ==
    /\ engine.phase = "finished"
    /\ engine.stops >= 3
    /\ engine.ticks > 0
    /\ Stopped(engine)
    /\ ~engine.streamer.is_connected
    /\ ~publisher.is_connected /\ publisher.socket = "none"
    /\ publisher.stop_heartbeat

====
